---- MODULE Spec2Model ----
(***************************************************************************)
(* Street map generator (zzstoatzz/maps): main.py, maps/storage.py,        *)
(* maps/_compat.py.                                                        *)
(*                                                                         *)
(* Two specifications:                                                     *)
(*   Spec        one run of main.py (module import, argument parsing,      *)
(*               launch-mode dispatch, the one-shot CLI path) or of the    *)
(*               legacy shim _compat.old_main;                             *)
(*   SpecServer  the tool server once mcp.run() is serving: calls of       *)
(*               plot_street_map_from_address / _from_coordinates against  *)
(*               the R2 bucket.                                            *)
(*                                                                         *)
(* Text is modelled by TLA+ strings (Len, SubSeq and \o work on them), an  *)
(* optional value (Python None or a value) by the empty set or a           *)
(* singleton, a dict by a function on its keys.                            *)
(***************************************************************************)
EXTENDS Integers, Sequences, FiniteSets, TLC

VARIABLES
    program,            \* which entry point runs: "main.py" or "_compat.py"
    environ,            \* os.environ: name -> value
    dotenv,             \* the .env file: name -> value
    sys_argv,           \* sys.argv, program name first
    pc,                 \* position of the run
    now,                \* wall clock, seconds elapsed since BaseTime
    use_cache,          \* ox.settings.use_cache
    mcp,                \* the FastMCP instance: created, tools, running
    r2_bucket_settings, \* None or the settings object
    r2_bucket,          \* None or the R2Bucket client
    parsed,             \* None or the Namespace parse_args returned
    args,               \* None or the Namespace as the CLI path rewrites it
    cli,                \* what generate_street_map_from_address did
    fs,                 \* local file system: directories and files
    bucket,             \* the R2 bucket: key -> object
    call,               \* the tool call in progress
    ncalls              \* tool calls started so far

vars == <<program, environ, dotenv, sys_argv, pc, now, use_cache, mcp,
          r2_bucket_settings, r2_bucket, parsed, args, cli, fs, bucket,
          call, ncalls>>

-----------------------------------------------------------------------------
(* Bounds *)

\* the clock advances at most this many seconds during a run
MaxClock == 1
\* tool calls one server run handles
MaxCalls == 2

-----------------------------------------------------------------------------
(* Optional values and Python truthiness *)

None == {}
Some(x) == {x}
Get(o) == CHOOSE x \in o : TRUE

\* bool(s) of an optional string: None and "" are falsy
TruthyStr(o) == o # None /\ Get(o) # ""
\* bool(d) of an optional dict: None and {} are falsy
TruthyDict(o) == o # None /\ DOMAIN Get(o) # {}
\* dict.get(key, default)
DictGet(d, key, default) == IF key \in DOMAIN d THEN d[key] ELSE default

-----------------------------------------------------------------------------
(* Text *)

Digits == {"0", "1", "2", "3", "4", "5", "6", "7", "8", "9"}
CharAt(s, i) == SubSeq(s, i, i)
IsDigits(s) == \A i \in 1..Len(s) : CharAt(s, i) \in Digits
HasSubstring(s, t) ==
    \E i \in 1..(Len(s) - Len(t) + 1) : SubSeq(s, i, i + Len(t) - 1) = t
EndsWith(s, t) == Len(s) >= Len(t) /\ SubSeq(s, Len(s) - Len(t) + 1, Len(s)) = t
StartsWith(s, t) == Len(s) >= Len(t) /\ SubSeq(s, 1, Len(t)) = t

\* str.replace(old, new) for a one-character old
RECURSIVE str_replace(_, _, _)
str_replace(s, old, new) ==
    IF s = "" THEN ""
    ELSE (IF CharAt(s, 1) = old THEN new ELSE CharAt(s, 1))
         \o str_replace(SubSeq(s, 2, Len(s)), old, new)

\* left-pad s with zeros to width w
RECURSIVE LeftPad(_, _)
LeftPad(s, w) == IF Len(s) >= w THEN s ELSE LeftPad("0" \o s, w)
\* format an integer in at least w digits, zero padded (%Y %m %d %H %M %S)
ZeroPad(n, w) == LeftPad(ToString(n), w)

-----------------------------------------------------------------------------
(* Local time *)

\* the local time at which the run starts (now = 0); one second before
\* midnight, so that the seconds, minutes, hours and day all roll over
BaseTime == [year |-> 2025, month |-> 3, day |-> 14,
             hour |-> 23, minute |-> 59, second |-> 59]

\* datetime.now() when the clock reads t (within one month of BaseTime)
datetime_now(t) ==
    LET secs == (BaseTime.hour * 60 + BaseTime.minute) * 60 + BaseTime.second + t
    IN  [year   |-> BaseTime.year,
         month  |-> BaseTime.month,
         day    |-> BaseTime.day + (secs \div 86400),
         hour   |-> (secs \div 3600) % 24,
         minute |-> (secs \div 60) % 60,
         second |-> secs % 60]

\* d.strftime("%Y%m%d_%H%M%S")
strftime(d) ==
    ZeroPad(d.year, 4) \o ZeroPad(d.month, 2) \o ZeroPad(d.day, 2) \o "_"
    \o ZeroPad(d.hour, 2) \o ZeroPad(d.minute, 2) \o ZeroPad(d.second, 2)

\* datetime.now().strftime("%Y%m%d_%H%M%S")
Timestamp(t) == strftime(datetime_now(t))

-----------------------------------------------------------------------------
(* Settings: class R2BucketSettings(BaseSettings) *)

\* the fields of R2BucketSettings, all required (no default)
SettingsFields ==
    {"R2_BUCKET", "R2_ENDPOINT_URL", "R2_PUBLIC_BUCKET_URL",
     "AWS_ACCESS_KEY_ID", "AWS_SECRET_ACCESS_KEY"}

\* model_config: extra="ignore", env_file=".env"
SettingsExtra == "ignore"

\* the value a field gets: the environment wins over the .env file
FieldSource(env, file, f) ==
    IF f \in DOMAIN env THEN Some(env[f])
    ELSE IF f \in DOMAIN file THEN Some(file[f])
    ELSE None

\* a mutant of SettingsValid: names the class does not declare are rejected
SettingsValid_ForbidExtra(env, file) ==
    /\ \A f \in SettingsFields : FieldSource(env, file, f) # None
    /\ DOMAIN env \cup DOMAIN file \subseteq SettingsFields

\* whether R2BucketSettings() validates: every field has a value; a name in
\* the .env file that is no field is rejected only under extra="forbid"
SettingsValid(env, file) ==
    /\ \A f \in SettingsFields : FieldSource(env, file, f) # None
    /\ (SettingsExtra = "forbid" => DOMAIN file \subseteq SettingsFields)

\* the settings object R2BucketSettings() builds
R2BucketSettings(env, file) ==
    [f \in SettingsFields |-> Get(FieldSource(env, file, f))]

-----------------------------------------------------------------------------
(* argparse: parse_args() of main.py and of _compat.py *)

NetworkTypes == {"drive", "bike", "walk", "all"}

\* the options that take one value, and the Namespace attribute each sets
ValueOptions == {"--network-type", "--edge-color", "--output"}
Dest(opt) ==
    CASE opt = "--network-type" -> "network_type"
      [] opt = "--edge-color"   -> "edge_color"
      [] opt = "--output"       -> "output"

\* the store_true flag of each parser
ServerFlag(prog) ==
    IF prog = "main.py" THEN "--server" ELSE "--register-and-run-mcp-server"

\* argparse takes a string that starts with "-" (and is not "-" alone) for an
\* option string
LooksLikeOption(tok) == Len(tok) > 1 /\ CharAt(tok, 1) = "-"

\* the Namespace before any argument is read: the add_argument defaults
DefaultNamespace ==
    [address        |-> None,
     server         |-> FALSE,
     network_type   |-> Some("drive"),
     dist           |-> 5000,
     dpi            |-> 300,
     edge_linewidth |-> "0.5",
     node_size      |-> 0,
     bgcolor        |-> "black",
     edge_color     |-> None,
     output         |-> None,
     output_is_path |-> FALSE]    \* type(args.output) is Path, not str

UsageError == [ok |-> FALSE, ns |-> DefaultNamespace]

\* parser.parse_args(): tokens argv[i..] read left to right into ns; a usage
\* error ends the process (SystemExit 2)
RECURSIVE parse_from(_, _, _, _)
parse_from(prog, argv, i, ns) ==
    IF i > Len(argv) THEN [ok |-> TRUE, ns |-> ns]
    ELSE LET tok == argv[i] IN
         IF tok = ServerFlag(prog)
         THEN parse_from(prog, argv, i + 1, [ns EXCEPT !.server = TRUE])
         ELSE IF tok \in ValueOptions
         THEN IF i + 1 > Len(argv) \/ LooksLikeOption(argv[i + 1])
              THEN UsageError                      \* expected one argument
              ELSE IF tok = "--network-type" /\ argv[i + 1] \notin NetworkTypes
              THEN UsageError                      \* invalid choice
              ELSE parse_from(prog, argv, i + 2,
                              [ns EXCEPT ![Dest(tok)] = Some(argv[i + 1])])
         ELSE IF LooksLikeOption(tok)
         THEN UsageError                           \* unrecognized arguments
         ELSE IF ns.address = None
         THEN parse_from(prog, argv, i + 1, [ns EXCEPT !.address = Some(tok)])
         ELSE UsageError                           \* unrecognized arguments

\* parse_args(): sys.argv[1:] parsed
parse_args(prog, argv) == parse_from(prog, argv, 2, DefaultNamespace)

-----------------------------------------------------------------------------
(* Inputs *)

\* the address of the repository's documentation, and the empty string
CliAddresses == {"2530 16th St, San Francisco, CA 94103", ""}
CliEdgeColors == {"#ff0000", ""}
CliOutputs == {"out/map.png", ""}

OptAddress == {<<>>} \cup {<<a>> : a \in CliAddresses}
OptFlag(prog) == {<<>>, <<ServerFlag(prog)>>}
OptNetworkType == {<<>>} \cup {<<"--network-type", n>> : n \in NetworkTypes}
OptEdgeColor == {<<>>} \cup {<<"--edge-color", c>> : c \in CliEdgeColors}
OptOutput == {<<>>} \cup {<<"--output", o>> : o \in CliOutputs}

\* command lines argparse accepts
ValidArgVectors(prog) ==
    {a \o f \o n \o e \o o :
        a \in OptAddress, f \in OptFlag(prog), n \in OptNetworkType,
        e \in OptEdgeColor, o \in OptOutput}
    \cup {<<"--network-type", "walk", "Chicago">>}

\* command lines argparse rejects
InvalidArgVectors ==
    {<<"--network-type", "car">>, <<"Chicago", "Illinois">>, <<"--output">>,
     <<"--edge-color", "--dpi">>, <<"--verbose">>}

\* the shim's caller is not part of the sources: old_main is given what
\* _compat.parse_args returns for a command line without the server flag
ArgVectors(prog) ==
    IF prog = "main.py" THEN ValidArgVectors(prog) \cup InvalidArgVectors
    ELSE {v \in ValidArgVectors(prog) : \A i \in 1..Len(v) : v[i] # ServerFlag(prog)}

BaseUrls == {"https://cdn.example.com", "https://cdn.example.com/"}

FullEnv(url) ==
    [f \in SettingsFields |->
        CASE f = "R2_BUCKET"             -> "maps"
          [] f = "R2_ENDPOINT_URL"       -> "https://account.r2.example"
          [] f = "R2_PUBLIC_BUCKET_URL"  -> url
          [] f = "AWS_ACCESS_KEY_ID"     -> "key-id"
          [] f = "AWS_SECRET_ACCESS_KEY" -> "secret"]

UnrelatedVar == "UNRELATED_VAR"

Restrict(f, S) == [x \in S |-> f[x]]
WithUnrelated(f) ==
    [x \in DOMAIN f \cup {UnrelatedVar} |-> IF x = UnrelatedVar THEN "1" ELSE f[x]]

\* os.environ: every field set or exactly one missing, with or without a
\* variable that is no field
Environments ==
    LET full == FullEnv("https://cdn.example.com")
        some == {FullEnv(u) : u \in BaseUrls}
                \cup {Restrict(full, SettingsFields \ {m}) : m \in SettingsFields}
    IN  some \cup {WithUnrelated(e) : e \in some}

\* the .env file: absent (empty), or one that sets every field and one more name
DotenvFiles == {<<>>, WithUnrelated(FullEnv("https://dotenv.example.com"))}

NoRun ==
    [called    |-> FALSE,   \* generate_street_map_from_address was entered
     address   |-> None,    \* the address it was given
     graph     |-> None,    \* the projected graph
     fig       |-> None,    \* the figure, as the keywords it was plotted with
     shown     |-> FALSE,   \* plt.show() ran
     closed    |-> FALSE,   \* plt.close() ran
     saved     |-> None,    \* the path fig.savefig wrote
     output_at |-> None]    \* the clock when the default output name was made

\* no tool call has been made yet
NoCall ==
    [pc            |-> "idle",
     tool          |-> "",
     address       |-> None,   \* the address argument
     point         |-> None,   \* the point argument
     given_options |-> None,   \* address_options / point_options as passed
     given_plot    |-> None,   \* plot_options as passed
     options       |-> <<>>,   \* address_options / point_options after defaulting
     plot_options  |-> <<>>,   \* plot_options after defaulting
     graph         |-> None,   \* G
     fig           |-> None,   \* the figure ox.plot_graph returned
     save_args     |-> None,   \* what save_figure was called with
     key           |-> None,   \* what save_figure returned
     saved_at      |-> None,   \* the clock when save_figure read the time
     result        |-> None,   \* the URL returned to the caller
     steps         |-> <<>>,   \* the external steps attempted, in order
     failed_at     |-> "",     \* the step that raised
     before        |-> <<>>]   \* the bucket when the call began

-----------------------------------------------------------------------------
(* Spec: one run of main.py or of the shim *)

Init ==
    /\ program \in {"main.py", "_compat.py"}
    /\ sys_argv \in {<<program>> \o v : v \in ArgVectors(program)}
    /\ environ \in IF program = "main.py" THEN Environments
                   ELSE {FullEnv("https://cdn.example.com")}
    /\ dotenv \in IF program = "main.py" THEN DotenvFiles ELSE {<<>>}
    /\ pc = IF program = "main.py" THEN "import" ELSE "compat_parse"
    /\ now = 0
    /\ use_cache = TRUE
    /\ mcp = [created |-> FALSE, tools |-> {}, running |-> FALSE]
    /\ r2_bucket_settings = None
    /\ r2_bucket = None
    /\ parsed = None
    /\ args = None
    /\ cli = NoRun
    /\ fs \in {[dirs |-> d, files |-> <<>>] : d \in {{"."}, {".", "img"}}}
    /\ bucket = <<>>
    /\ call = NoCall
    /\ ncalls = 0

Terminal == {"config_error", "usage_error", "failed", "done", "serving"}

\* the wall clock advances while the process runs
Tick ==
    /\ pc \notin Terminal
    /\ now < MaxClock
    /\ now' = now + 1
    /\ UNCHANGED <<program, environ, dotenv, sys_argv, pc, use_cache, mcp,
                   r2_bucket_settings, r2_bucket, parsed, args, cli, fs,
                   bucket, call, ncalls>>

\* main.py line 26: ox.settings.use_cache = False
SetUseCache ==
    /\ pc = "import"
    /\ use_cache' = FALSE
    /\ pc' = "make_mcp"
    /\ UNCHANGED <<program, environ, dotenv, sys_argv, now, mcp,
                   r2_bucket_settings, r2_bucket, parsed, args, cli, fs,
                   bucket, call, ncalls>>

\* mcp = FastMCP(...)
CreateMcp ==
    /\ pc = "make_mcp"
    /\ mcp' = [mcp EXCEPT !.created = TRUE]
    /\ pc' = "settings"
    /\ UNCHANGED <<program, environ, dotenv, sys_argv, now, use_cache,
                   r2_bucket_settings, r2_bucket, parsed, args, cli, fs,
                   bucket, call, ncalls>>

\* r2_bucket_settings = R2BucketSettings(): a ValidationError ends the import
ConstructSettings ==
    /\ pc = "settings"
    /\ IF SettingsValid(environ, dotenv)
       THEN /\ r2_bucket_settings' = Some(R2BucketSettings(environ, dotenv))
            /\ pc' = "bucket"
       ELSE /\ r2_bucket_settings' = None
            /\ pc' = "config_error"
    /\ UNCHANGED <<program, environ, dotenv, sys_argv, now, use_cache, mcp,
                   r2_bucket, parsed, args, cli, fs, bucket, call, ncalls>>

\* r2_bucket = R2Bucket(bucket_name=..., endpoint_url=..., credentials)
BuildBucket ==
    /\ pc = "bucket"
    /\ LET s == Get(r2_bucket_settings)
       IN  r2_bucket' = Some([bucket_name           |-> s["R2_BUCKET"],
                              endpoint_url          |-> s["R2_ENDPOINT_URL"],
                              region_name           |-> "auto",
                              aws_access_key_id     |-> s["AWS_ACCESS_KEY_ID"],
                              aws_secret_access_key |-> s["AWS_SECRET_ACCESS_KEY"]])
    /\ pc' = "tool_address"
    /\ UNCHANGED <<program, environ, dotenv, sys_argv, now, use_cache, mcp,
                   r2_bucket_settings, parsed, args, cli, fs, bucket, call,
                   ncalls>>

\* @mcp.tool() def plot_street_map_from_address
RegisterAddressTool ==
    /\ pc = "tool_address"
    /\ mcp' = [mcp EXCEPT !.tools = @ \cup {"plot_street_map_from_address"}]
    /\ pc' = "tool_coordinates"
    /\ UNCHANGED <<program, environ, dotenv, sys_argv, now, use_cache,
                   r2_bucket_settings, r2_bucket, parsed, args, cli, fs,
                   bucket, call, ncalls>>

\* @mcp.tool() def plot_street_map_from_coordinates
RegisterCoordinatesTool ==
    /\ pc = "tool_coordinates"
    /\ mcp' = [mcp EXCEPT !.tools = @ \cup {"plot_street_map_from_coordinates"}]
    /\ pc' = "parse_args"
    /\ UNCHANGED <<program, environ, dotenv, sys_argv, now, use_cache,
                   r2_bucket_settings, r2_bucket, parsed, args, cli, fs,
                   bucket, call, ncalls>>

\* args = parse_args(), in main.py's __main__ block
ParseArgs ==
    /\ pc = "parse_args"
    /\ LET r == parse_args(program, sys_argv)
       IN  IF r.ok
           THEN parsed' = Some(r.ns) /\ args' = Some(r.ns) /\ pc' = "dispatch"
           ELSE parsed' = None /\ args' = None /\ pc' = "usage_error"
    /\ UNCHANGED <<program, environ, dotenv, sys_argv, now, use_cache, mcp,
                   r2_bucket_settings, r2_bucket, cli, fs, bucket, call,
                   ncalls>>

\* a mutant of RunsServer: the test for an empty command line left out
RunsServer_FlagOnly(argv, ns) == ns.server

\* if len(sys.argv) == 1 or args.server
RunsServer(argv, ns) == Len(argv) = 1 \/ ns.server

\* the branch of __main__: mcp.run(), or on to the CLI path
Dispatch ==
    /\ pc = "dispatch"
    /\ IF RunsServer(sys_argv, Get(args))
       THEN mcp' = [mcp EXCEPT !.running = TRUE] /\ pc' = "serving"
       ELSE mcp' = mcp /\ pc' = "edge_color"
    /\ UNCHANGED <<program, environ, dotenv, sys_argv, now, use_cache,
                   r2_bucket_settings, r2_bucket, parsed, args, cli, fs,
                   bucket, call, ncalls>>

\* the shim: old_main(args) with args from _compat.parse_args()
CallOldMain ==
    /\ pc = "compat_parse"
    /\ LET r == parse_args(program, sys_argv)
       IN  IF r.ok
           THEN parsed' = Some(r.ns) /\ args' = Some(r.ns) /\ pc' = "edge_color"
           ELSE parsed' = None /\ args' = None /\ pc' = "usage_error"
    /\ UNCHANGED <<program, environ, dotenv, sys_argv, now, use_cache, mcp,
                   r2_bucket_settings, r2_bucket, cli, fs, bucket, call,
                   ncalls>>

-----------------------------------------------------------------------------
(* The one-shot CLI path: __main__ of main.py, old_main of _compat.py *)

\* a mutant of DefaultEdgeColor: the colours of bike and walk exchanged
DefaultEdgeColor_Swapped(network_type) ==
    CASE network_type = "drive" -> "#ffffff"
      [] network_type = "bike"  -> "#2ecc71"
      [] network_type = "walk"  -> "#3498db"
      [] network_type = "all"   -> "#ffffff"

\* the dict indexed by args.network_type
DefaultEdgeColor(network_type) ==
    CASE network_type = "drive" -> "#ffffff"
      [] network_type = "bike"  -> "#3498db"
      [] network_type = "walk"  -> "#2ecc71"
      [] network_type = "all"   -> "#ffffff"

\* if not args.edge_color: args.edge_color = {...}[args.network_type]
resolve_edge_color(ns) ==
    IF ~TruthyStr(ns.edge_color)
    THEN [ns EXCEPT !.edge_color = Some(DefaultEdgeColor(Get(ns.network_type)))]
    ELSE ns

\* bool(args.output): a Path is always true, a str when it is not empty
TruthyPath(ns) == ns.output_is_path \/ TruthyStr(ns.output)

\* output_dir / f"{args.network_type}_street_map_{timestamp}.png"
DefaultOutput(network_type, t) ==
    "img" \o "/" \o network_type \o "_street_map_" \o Timestamp(t) \o ".png"

\* a mutant of resolve_output: the default name is used whatever --output says
resolve_output_Always(ns, t) ==
    [ns EXCEPT !.output = Some(DefaultOutput(Get(ns.network_type), t)),
               !.output_is_path = TRUE]

\* if not args.output: args.output = Path("img") / default name
resolve_output(ns, t) ==
    IF ~TruthyPath(ns)
    THEN [ns EXCEPT !.output = Some(DefaultOutput(Get(ns.network_type), t)),
                    !.output_is_path = TRUE]
    ELSE ns

\* the index of the last "/" of p at or before i, 0 when there is none
RECURSIVE LastSlash(_, _)
LastSlash(p, i) ==
    IF i = 0 THEN 0 ELSE IF CharAt(p, i) = "/" THEN i ELSE LastSlash(p, i - 1)

\* Path(p).parent
Parent(p) ==
    LET k == LastSlash(p, Len(p))
    IN  IF k = 0 THEN "." ELSE IF k = 1 THEN "/" ELSE SubSeq(p, 1, k - 1)

\* the edge-colour step of the CLI path
ResolveEdgeColor ==
    /\ pc = "edge_color"
    /\ args' = Some(resolve_edge_color(Get(args)))
    /\ pc' = "output"
    /\ UNCHANGED <<program, environ, dotenv, sys_argv, now, use_cache, mcp,
                   r2_bucket_settings, r2_bucket, parsed, cli, fs, bucket,
                   call, ncalls>>

\* the output step: without --output, img/ is made and the name is stamped
ResolveOutput ==
    /\ pc = "output"
    /\ args' = Some(resolve_output(Get(args), now))
    /\ IF ~TruthyPath(Get(args))
       THEN /\ fs' = [fs EXCEPT !.dirs = @ \cup {"img"}]
            /\ cli' = [cli EXCEPT !.output_at = Some(now)]
       ELSE UNCHANGED <<fs, cli>>
    /\ pc' = "acquire"
    /\ UNCHANGED <<program, environ, dotenv, sys_argv, now, use_cache, mcp,
                   r2_bucket_settings, r2_bucket, parsed, bucket, call,
                   ncalls>>

\* generate_street_map_from_address is entered: ox.graph_from_address and
\* ox.project_graph. The geocoder raises for an address of None and may raise
\* for any other (no match, network failure).
CliAcquire ==
    /\ pc = "acquire"
    /\ LET ns == Get(args) IN
       \E ok \in IF ns.address = None THEN {FALSE} ELSE BOOLEAN :
          /\ cli' = [cli EXCEPT
                        !.called = TRUE,
                        !.address = ns.address,
                        !.graph = IF ok
                                  THEN Some([address      |-> Get(ns.address),
                                             network_type |-> Get(ns.network_type),
                                             dist         |-> ns.dist])
                                  ELSE None]
          /\ pc' = IF ok THEN "plot" ELSE "failed"
    /\ UNCHANGED <<program, environ, dotenv, sys_argv, now, use_cache, mcp,
                   r2_bucket_settings, r2_bucket, parsed, args, fs, bucket,
                   call, ncalls>>

\* fig, _ = ox.plot_graph(graph_proj, ..., show=False, close=False)
CliPlot ==
    /\ pc = "plot"
    /\ LET ns == Get(args) IN
       \E ok \in BOOLEAN :
          /\ cli' = [cli EXCEPT
                        !.fig = IF ok
                                THEN Some([graph          |-> Get(cli.graph),
                                           node_size      |-> ns.node_size,
                                           edge_linewidth |-> ns.edge_linewidth,
                                           bgcolor        |-> ns.bgcolor,
                                           edge_color     |-> Get(ns.edge_color)])
                                ELSE None]
          /\ pc' = IF ok THEN "save" ELSE "failed"
    /\ UNCHANGED <<program, environ, dotenv, sys_argv, now, use_cache, mcp,
                   r2_bucket_settings, r2_bucket, parsed, args, fs, bucket,
                   call, ncalls>>

\* if save_path: mkdir the parent, fig.savefig, plt.close()
\* else: plt.show()
CliSaveOrShow ==
    /\ pc = "save"
    /\ LET ns == Get(args) IN
       IF TruthyPath(ns)
       THEN \E ok \in BOOLEAN :
              LET path == Get(ns.output) IN
              /\ fs' = [dirs  |-> fs.dirs \cup {Parent(path)},
                        files |-> IF ok
                                  THEN [f \in DOMAIN fs.files \cup {path} |->
                                          IF f = path
                                          THEN [fig |-> Get(cli.fig), dpi |-> ns.dpi]
                                          ELSE fs.files[f]]
                                  ELSE fs.files]
              /\ cli' = IF ok THEN [cli EXCEPT !.saved = Some(path), !.closed = TRUE]
                        ELSE cli
              /\ pc' = IF ok THEN "done" ELSE "failed"
       ELSE /\ cli' = [cli EXCEPT !.shown = TRUE]
            /\ fs' = fs
            /\ pc' = "done"
    /\ UNCHANGED <<program, environ, dotenv, sys_argv, now, use_cache, mcp,
                   r2_bucket_settings, r2_bucket, parsed, args, bucket, call,
                   ncalls>>

Next ==
    \/ Tick
    \/ SetUseCache
    \/ CreateMcp
    \/ ConstructSettings
    \/ BuildBucket
    \/ RegisterAddressTool
    \/ RegisterCoordinatesTool
    \/ ParseArgs
    \/ Dispatch
    \/ CallOldMain
    \/ ResolveEdgeColor
    \/ ResolveOutput
    \/ CliAcquire
    \/ CliPlot
    \/ CliSaveOrShow

Spec == Init /\ [][Next]_vars

-----------------------------------------------------------------------------
(* SpecServer: the tool server, serving calls *)

ToolAddresses == {"2530 16th St, San Francisco, CA 94103", "Oak St,Reno"}
ToolPoints == {<<"37.774929", "-122.419418">>}
\* option bags a caller passes: none, or one naming a network type
ToolGraphOptions == {None, Some([network_type |-> "walk"])}
\* plot option bags a caller passes: none, an empty one, one with its own
\* node size and resolution
ToolPlotOptions == {None, Some(<<>>), Some([node_size |-> 5, dpi |-> 72])}

\* the state main.py is in once mcp.run() serves: started without arguments,
\* every setting in the environment
InitServer ==
    /\ program = "main.py"
    /\ sys_argv = <<"main.py">>
    /\ environ \in {FullEnv(u) : u \in BaseUrls}
    /\ dotenv = <<>>
    /\ pc = "serving"
    /\ now = 0
    /\ use_cache = FALSE
    /\ mcp = [created |-> TRUE,
              tools   |-> {"plot_street_map_from_address",
                           "plot_street_map_from_coordinates"},
              running |-> TRUE]
    /\ r2_bucket_settings = Some(R2BucketSettings(environ, dotenv))
    /\ r2_bucket = Some([bucket_name           |-> environ["R2_BUCKET"],
                         endpoint_url          |-> environ["R2_ENDPOINT_URL"],
                         region_name           |-> "auto",
                         aws_access_key_id     |-> environ["AWS_ACCESS_KEY_ID"],
                         aws_secret_access_key |-> environ["AWS_SECRET_ACCESS_KEY"]])
    /\ parsed = Some(DefaultNamespace)
    /\ args = Some(DefaultNamespace)
    /\ cli = NoRun
    /\ fs = [dirs |-> {"."}, files |-> <<>>]
    /\ bucket = <<>>
    /\ call = NoCall
    /\ ncalls = 0

\* the wall clock advances while the server runs
ServerTick ==
    /\ now < MaxClock
    /\ now' = now + 1
    /\ UNCHANGED <<program, environ, dotenv, sys_argv, pc, use_cache, mcp,
                   r2_bucket_settings, r2_bucket, parsed, args, cli, fs,
                   bucket, call, ncalls>>

\* a mutant of DefaultPlotOptions: the older default, without edge_linewidth
DefaultPlotOptions_NodeSizeOnly == [node_size |-> 1]

\* {"node_size": 1, "edge_linewidth": 0.5}
DefaultPlotOptions == [node_size |-> 1, edge_linewidth |-> "0.5"]

\* address_options or {}  /  plot_options or {...}
OrDefault(given, default) == IF TruthyDict(given) THEN Get(given) ELSE default

\* a mutant of AddressNamespace: commas become underscores too
AddressNamespace_CommaToUnderscore(address) ==
    str_replace(str_replace(address, ",", "_"), " ", "_")

\* address.replace(",", "").replace(" ", "_")
AddressNamespace(address) ==
    str_replace(str_replace(address, ",", ""), " ", "_")

\* key = f"{namespace}/{network_type}_{timestamp}.png"
FigureKey(namespace, network_type, t) ==
    namespace \o "/" \o network_type \o "_" \o Timestamp(t) \o ".png"

\* a mutant of upload_fileobj: an object already at the key is kept
upload_fileobj_KeepExisting(objects, key, object) ==
    [k \in DOMAIN objects \cup {key} |->
        IF k \in DOMAIN objects THEN objects[k] ELSE object]

\* self.client.upload_fileobj(fileobj, self.bucket_name, key): the object at
\* key is created or replaced
upload_fileobj(objects, key, object) ==
    [k \in DOMAIN objects \cup {key} |-> IF k = key THEN object ELSE objects[k]]

\* a mutant of _make_url: base and key joined without the "/"
_make_url_NoSlash(settings, key) == settings["R2_PUBLIC_BUCKET_URL"] \o key

\* f"{r2_bucket_settings.R2_PUBLIC_BUCKET_URL}/{key}"
_make_url(settings, key) == settings["R2_PUBLIC_BUCKET_URL"] \o "/" \o key

\* a tool function is entered and defaults its option bags (the first two
\* statements of either tool)
BeginCall(tool, address, point, graph_options, plot_options) ==
    [NoCall EXCEPT
        !.pc = "started",
        !.tool = tool,
        !.address = address,
        !.point = point,
        !.given_options = graph_options,
        !.given_plot = plot_options,
        !.options = OrDefault(graph_options, <<>>),
        !.plot_options = OrDefault(plot_options, DefaultPlotOptions),
        !.before = bucket]

\* a mutant of Raised: the exception is caught and the step is tried again
Raised_Retried(c, step) == [c EXCEPT !.steps = Append(@, step)]

\* an external step raised: the exception leaves the tool function
Raised(c, step) ==
    [c EXCEPT !.pc = "failed", !.failed_at = step, !.steps = Append(@, step)]

ServerFrame ==
    UNCHANGED <<program, environ, dotenv, sys_argv, pc, now, use_cache, mcp,
                r2_bucket_settings, r2_bucket, parsed, args, cli, fs>>

\* the client calls plot_street_map_from_address
CallFromAddress ==
    /\ pc = "serving"
    /\ call.pc \in {"idle", "returned", "failed"}
    /\ ncalls < MaxCalls
    /\ \E a \in ToolAddresses, o \in ToolGraphOptions, p \in ToolPlotOptions :
          call' = BeginCall("plot_street_map_from_address", Some(a), None, o, p)
    /\ ncalls' = ncalls + 1
    /\ UNCHANGED bucket
    /\ ServerFrame

\* the client calls plot_street_map_from_coordinates
CallFromCoordinates ==
    /\ pc = "serving"
    /\ call.pc \in {"idle", "returned", "failed"}
    /\ ncalls < MaxCalls
    /\ \E pt \in ToolPoints, o \in ToolGraphOptions, p \in ToolPlotOptions :
          call' = BeginCall("plot_street_map_from_coordinates", None, Some(pt), o, p)
    /\ ncalls' = ncalls + 1
    /\ UNCHANGED bucket
    /\ ServerFrame

\* G = generators.from_address(address, **address_options), or
\* G = generators.from_point(point, **point_options): acquired and projected,
\* or the acquisition raises
Acquire ==
    /\ call.pc = "started"
    /\ \/ call' = [call EXCEPT
                      !.pc = "acquired",
                      !.steps = Append(@, "acquire"),
                      !.graph = Some([address |-> call.address,
                                      point   |-> call.point,
                                      dist    |-> 1000,
                                      kwargs  |-> call.options])]
       \/ call' = Raised(call, "acquire")
    /\ UNCHANGED <<bucket, ncalls>>
    /\ ServerFrame

\* fig, _ = ox.plot_graph(G, show=False, **plot_options)
Render ==
    /\ call.pc = "acquired"
    /\ \/ call' = [call EXCEPT
                      !.pc = "rendered",
                      !.steps = Append(@, "render"),
                      !.fig = Some([call   |-> ncalls,
                                    graph  |-> call.graph,
                                    show   |-> FALSE,
                                    kwargs |-> call.plot_options])]
       \/ call' = Raised(call, "render")
    /\ UNCHANGED <<bucket, ncalls>>
    /\ ServerFrame

\* the arguments a tool passes to r2_bucket.save_figure
SaveArgs(c) ==
    [fig          |-> c.fig,
     network_type |-> DictGet(c.options, "network_type", "street"),
     namespace    |-> IF c.tool = "plot_street_map_from_address"
                      THEN AddressNamespace(Get(c.address))
                      ELSE "some_coordinate_point",
     dpi          |-> DictGet(c.plot_options, "dpi", 300)]

\* key = r2_bucket.save_figure(fig, network_type, namespace, dpi): the figure is
\* written to a buffer, the key is stamped with the time, the buffer is
\* uploaded. Writing the buffer may raise; the upload may raise, with the
\* object stored or not.
SaveFigure ==
    /\ call.pc = "rendered"
    /\ LET a == SaveArgs(call)
           key == FigureKey(a.namespace, a.network_type, now)
           \* the PNG: which call's figure at which resolution, and (for the
           \* properties) the arguments and the second it was saved with
           object == [fig |-> Get(a.fig).call, dpi |-> a.dpi,
                      namespace |-> a.namespace,
                      network_type |-> a.network_type, at |-> now]
           c == [call EXCEPT !.save_args = Some(a)]
       IN  \/ /\ call' = [c EXCEPT !.pc = "saved",
                                   !.steps = Append(@, "upload"),
                                   !.key = Some(key),
                                   !.saved_at = Some(now)]
              /\ bucket' = upload_fileobj(bucket, key, object)
           \/ /\ call' = Raised(c, "savefig")
              /\ bucket' = bucket
           \/ /\ call' = Raised([c EXCEPT !.saved_at = Some(now)], "upload")
              /\ bucket' \in {bucket, upload_fileobj(bucket, key, object)}
    /\ UNCHANGED ncalls
    /\ ServerFrame

\* return _make_url(key)
ReturnUrl ==
    /\ call.pc = "saved"
    /\ call' = [call EXCEPT
                   !.pc = "returned",
                   !.steps = Append(@, "return"),
                   !.result = IF call.key = None THEN None
                              ELSE Some(_make_url(Get(r2_bucket_settings),
                                                  Get(call.key)))]
    /\ UNCHANGED <<bucket, ncalls>>
    /\ ServerFrame

NextServer ==
    \/ ServerTick
    \/ CallFromAddress
    \/ CallFromCoordinates
    \/ Acquire
    \/ Render
    \/ SaveFigure
    \/ ReturnUrl

SpecServer == InitServer /\ [][NextServer]_vars

-----------------------------------------------------------------------------
(* Properties of Spec *)

CliPositions == {"edge_color", "output", "acquire", "plot", "save", "done", "failed"}

\* __main__ has chosen its branch
Dispatched == program = "main.py" /\ parsed # None /\ pc # "dispatch"

\* the command line carries the server flag
ServerFlagGiven == \E i \in 2..Len(sys_argv) : sys_argv[i] = "--server"

\* C1: launch-mode selection is a function of the command line alone: with no
\* argument or with --server main.py runs the server (mcp.run), with an address
\* and without --server it runs the one-shot CLI path; never both; whatever the
\* environment holds.
C1_LaunchMode ==
    Dispatched =>
        /\ (Len(sys_argv) = 1 \/ ServerFlagGiven)
              => (pc = "serving" /\ mcp.running /\ ~cli.called)
        /\ (Get(parsed).address # None /\ ~ServerFlagGiven)
              => (pc \in CliPositions /\ ~mcp.running)
        /\ ~(mcp.running /\ cli.called)

\* C1 witness: started with no argument at all, main.py is serving, in an
\* environment that also holds a variable the settings do not know
C1_Witness ==
    /\ program = "main.py" /\ Len(sys_argv) = 1 /\ pc = "serving"
    /\ mcp.running /\ UnrelatedVar \in DOMAIN environ

\* the edge colour has been resolved on the CLI path
EdgeColorResolved ==
    parsed # None /\ pc \in (CliPositions \ {"edge_color"})

\* the documented colour of each network type
DocumentedEdgeColor(nt) ==
    IF nt = "bike" THEN "#3498db" ELSE IF nt = "walk" THEN "#2ecc71" ELSE "#ffffff"

\* C3 as stated: without --edge-color the colour is the documented one of the
\* network type, and every supplied --edge-color value is kept as supplied.
C3_Original ==
    EdgeColorResolved =>
        LET given == Get(parsed).edge_color
            nt == Get(Get(parsed).network_type)
        IN  /\ given = None => Get(args).edge_color = Some(DocumentedEdgeColor(nt))
            /\ given # None => Get(args).edge_color = given

\* C3 amended: without --edge-color, or with an empty one, the colour is the
\* documented one of the network type (drive #ffffff, bike #3498db, walk
\* #2ecc71, all #ffffff); every supplied non-empty --edge-color is kept as
\* supplied, whatever the network type.
C3_EdgeColor ==
    EdgeColorResolved =>
        LET given == Get(parsed).edge_color
            nt == Get(Get(parsed).network_type)
        IN  /\ nt \in {"drive", "bike", "walk", "all"}
            /\ (given = None \/ given = Some(""))
                  => Get(args).edge_color = Some(DocumentedEdgeColor(nt))
            /\ (given # None /\ given # Some(""))
                  => Get(args).edge_color = given

\* C3 witness: a finished walk run without --edge-color, drawn in #2ecc71
C3_Witness ==
    /\ pc = "done" /\ Get(parsed).edge_color = None
    /\ Get(parsed).network_type = Some("walk")
    /\ Get(args).edge_color = Some("#2ecc71")
    /\ Get(cli.fig).edge_color = "#2ecc71"

\* a required setting is in neither the environment nor the .env file
SettingMissing ==
    \E f \in {"R2_BUCKET", "R2_ENDPOINT_URL", "R2_PUBLIC_BUCKET_URL",
              "AWS_ACCESS_KEY_ID", "AWS_SECRET_ACCESS_KEY"} :
        f \notin DOMAIN environ /\ f \notin DOMAIN dotenv

\* C7: when a required setting is absent, main.py stops at the construction of
\* the settings object: no storage client is built, no tool is registered, no
\* argument is parsed, neither launch mode runs; and construction fails only
\* then, so a variable the settings do not know never changes its outcome.
C7_FailFast ==
    program = "main.py" =>
        /\ SettingMissing =>
              /\ pc \in {"import", "make_mcp", "settings", "config_error"}
              /\ r2_bucket_settings = None
              /\ r2_bucket = None
              /\ mcp.tools = {}
              /\ parsed = None /\ args = None
              /\ ~mcp.running /\ ~cli.called
        /\ ~SettingMissing => pc # "config_error"

\* C7 witness: construction has failed for a command line that asks for a map,
\* with an unknown variable in the environment
C7_Witness ==
    /\ program = "main.py" /\ pc = "config_error"
    /\ "R2_BUCKET" \notin DOMAIN environ
    /\ UnrelatedVar \in DOMAIN environ
    /\ Len(sys_argv) > 1 /\ ~ServerFlagGiven

\* C8: whenever the address is left off the command line, main.py runs as a
\* server and never enters generate_street_map_from_address (so never with
\* address = None).
C8_NoAddressRunsServer ==
    (Dispatched /\ Get(parsed).address = None)
        => (pc = "serving" /\ ~cli.called)

\* a timestamp reads YYYYMMDD_HHMMSS: eight digits, "_", six digits
StampShape(ts) ==
    /\ Len(ts) = 15
    /\ IsDigits(SubSeq(ts, 1, 8))
    /\ CharAt(ts, 9) = "_"
    /\ IsDigits(SubSeq(ts, 10, 15))

\* the local time of clock reading t, written out
ExpectedStamp(t) ==
    IF t = 0 THEN "20250314_235959"
    ELSE IF t = 1 THEN "20250315_000000"
    ELSE IF t = 2 THEN "20250315_000001"
    ELSE "20250315_000002"

\* what a finished CLI run did with the figure, given the path it should have
\* written: saved there, closed, never shown
SavedTo(path) ==
    /\ cli.saved = Some(path)
    /\ path \in DOMAIN fs.files
    /\ fs.files[path].fig = Get(cli.fig)
    /\ Parent(path) \in fs.dirs
    /\ cli.closed

\* the default file name of a run without a usable --output
DefaultNameWritten ==
    /\ cli.output_at # None
    /\ Get(cli.output_at) <= now
    /\ LET ts == ExpectedStamp(Get(cli.output_at))
       IN  /\ StampShape(ts)
           /\ SavedTo("img/" \o Get(Get(parsed).network_type)
                      \o "_street_map_" \o ts \o ".png")
    /\ "img" \in fs.dirs

-----------------------------------------------------------------------------
(* Properties of SpecServer *)

\* the call has uploaded its image and holds the key
Saved == call.pc \in {"saved", "returned"}

\* C2: key collision is last-write-wins: when an earlier save used the same
\* namespace and network type in the same second, this save computed the same
\* key, succeeded, and the object at the key is now this call's figure and not
\* the earlier one.
C2_LastWriteWins ==
    Saved =>
        LET a == Get(call.save_args)
            k == Get(call.key)
        IN  /\ k \in DOMAIN bucket
            /\ bucket[k].fig = Get(a.fig).call
            /\ bucket[k].dpi = a.dpi
            /\ \A j \in DOMAIN call.before :
                  (/\ call.before[j].namespace = a.namespace
                   /\ call.before[j].network_type = a.network_type
                   /\ call.before[j].at = Get(call.saved_at))
                  => (j = k /\ bucket[k].fig # call.before[j].fig)

\* C2 witness: the second call saved at the key the first call wrote in the
\* same second, and the key now holds the second figure at another resolution
C2_Witness ==
    /\ call.pc = "returned" /\ ncalls = 2
    /\ Get(call.key) \in DOMAIN call.before
    /\ call.before[Get(call.key)].at = Get(call.saved_at)
    /\ call.before[Get(call.key)].fig = 1
    /\ bucket[Get(call.key)].fig = 2
    /\ bucket[Get(call.key)].dpi # call.before[Get(call.key)].dpi

\* the namespace of each address, written out
DocumentedNamespace(address) ==
    IF address = "2530 16th St, San Francisco, CA 94103"
    THEN "2530_16th_St_San_Francisco_CA_94103"
    ELSE "Oak_StReno"

\* C4: the address tool uploads under {namespace}/{network_type}_{stamp}.png,
\* the namespace being the address without its commas and with "_" for every
\* space, the network type the one passed in address_options, the stamp the
\* local time of the save as YYYYMMDD_HHMMSS.
C4_AddressKey ==
    (/\ Saved
     /\ call.tool = "plot_street_map_from_address"
     /\ call.given_options # None
     /\ "network_type" \in DOMAIN Get(call.given_options))
    => LET ns == DocumentedNamespace(Get(call.address))
           ts == ExpectedStamp(Get(call.saved_at))
       IN  /\ ~HasSubstring(ns, ",") /\ ~HasSubstring(ns, " ")
           /\ StampShape(ts)
           /\ Get(call.saved_at) <= now
           /\ Get(call.key) = ns \o "/" \o Get(call.given_options).network_type
                                 \o "_" \o ts \o ".png"
           /\ Get(call.key) \in DOMAIN bucket

\* C4 witness: the documented address with walk, saved just after midnight
C4_Witness ==
    /\ call.pc = "returned"
    /\ call.address = Some("2530 16th St, San Francisco, CA 94103")
    /\ call.key = Some("2530_16th_St_San_Francisco_CA_94103/walk_20250315_000000.png")

\* the configured public base URL
ConfiguredBase == environ["R2_PUBLIC_BUCKET_URL"]

\* the URL is the base, one "/", and the key the image was uploaded under
BaseSlashKey ==
    /\ call.key # None
    /\ Get(call.key) \in DOMAIN bucket
    /\ bucket[Get(call.key)].fig = Get(call.fig).call
    /\ call.result = Some(ConfiguredBase \o "/" \o Get(call.key))

\* "//" straddles the place where base and key are joined
DoubleSlashAtJoin(url, base) ==
    \/ SubSeq(url, Len(base), Len(base) + 1) = "//"
    \/ SubSeq(url, Len(base) + 1, Len(base) + 2) = "//"

\* C5 as stated: a successful call returns the base URL, one "/", and its key,
\* with no double slash at the join.
C5_Original ==
    call.pc = "returned" =>
        /\ BaseSlashKey
        /\ ~DoubleSlashAtJoin(Get(call.result), ConfiguredBase)

\* C5 amended: a successful call of either tool returns exactly the configured
\* R2_PUBLIC_BUCKET_URL, one "/", and the key save_figure returned for that
\* call, nothing else changed; the join shows a double slash exactly when the
\* configured base ends in "/" or the key begins with "/".
C5_PublicUrl ==
    call.pc = "returned" =>
        /\ BaseSlashKey
        /\ DoubleSlashAtJoin(Get(call.result), ConfiguredBase)
              <=> (EndsWith(ConfiguredBase, "/") \/ StartsWith(Get(call.key), "/"))

\* C5 witness: the documented base and a key give base/key
C5_Witness ==
    /\ call.pc = "returned"
    /\ ConfiguredBase = "https://cdn.example.com"
    /\ call.key = Some("some_coordinate_point/street_20250314_235959.png")
    /\ call.result = Some("https://cdn.example.com/some_coordinate_point/street_20250314_235959.png")

\* the option bags as the external calls received them
PlotKeywords == Get(call.fig).kwargs
AcquireKeywords == Get(call.graph).kwargs

\* a call without plot_options renders with the documented default dict and
\* saves at 300 dpi
DocumentedDefaultsUsed ==
    /\ call.plot_options = [node_size |-> 1, edge_linewidth |-> "0.5"]
    /\ call.fig # None => PlotKeywords = [node_size |-> 1, edge_linewidth |-> "0.5"]
    /\ call.save_args # None => Get(call.save_args).dpi = 300

\* a call without an acquisition option bag acquires with the empty bag
EmptyAcquisitionBag ==
    call.given_options = None =>
        /\ call.options = <<>>
        /\ call.graph # None => AcquireKeywords = <<>>

\* the supplied plot_options reach the rendering call as given
PassedThrough ==
    /\ call.plot_options = Get(call.given_plot)
    /\ call.fig # None => PlotKeywords = Get(call.given_plot)

IsPrefix(s, t) == Len(s) <= Len(t) /\ s = SubSeq(t, 1, Len(s))
Occurs(s, x) == \E i \in 1..Len(s) : s[i] = x

\* C10: within one tool call the steps run in the order acquire, render,
\* upload, return, each at most once; the upload follows the acquisition and
\* rendering of the same call; a step that raises ends the call with no URL and
\* is not tried again; and unless the call reached its upload the bucket is as
\* it was when the call began.
C10_Sequencing ==
    call.pc # "idle" =>
        LET s == call.steps IN
        /\ \/ IsPrefix(s, <<"acquire", "render", "upload", "return">>)
           \/ s = <<"acquire", "render", "savefig">>
        /\ Occurs(s, "upload") =>
              /\ call.graph # None /\ call.fig # None
              /\ Get(call.fig).graph = call.graph
              /\ Get(call.save_args).fig = call.fig
        /\ call.pc = "failed" <=> call.failed_at # ""
        /\ call.pc = "failed" =>
              /\ call.result = None
              /\ s[Len(s)] = call.failed_at
        /\ call.result # None =>
              /\ call.pc = "returned"
              /\ s = <<"acquire", "render", "upload", "return">>
        /\ ~Occurs(s, "upload") => bucket = call.before

\* C10 witness: a second call whose rendering raised, the bucket still holding
\* just what the first call uploaded
C10_Witness ==
    /\ ncalls = 2 /\ call.pc = "failed" /\ call.failed_at = "render"
    /\ call.steps = <<"acquire", "render">>
    /\ DOMAIN bucket # {} /\ bucket = call.before

-----------------------------------------------------------------------------
(* The acquisition cache flag (Spec) *)

\* C11: when main.py runs as the tool server the cache flag is off before any
\* acquisition call is made; when main.py runs the one-shot CLI path the flag
\* is still at its default, on, when generate_street_map_from_address makes
\* its acquisition call.
C11_CacheFlagPerMode ==
    program = "main.py" =>
        /\ pc = "serving" => ~use_cache
        /\ (pc \in CliPositions /\ cli.called) => use_cache
====
